---- MODULE Spec2Model ----
(***************************************************************************)
(* A model of twinning.py: angleTBpair, rotationmatrix, OR_NCtwins and     *)
(* applythresh, driven by a caller that invokes one function at a time.    *)
(*                                                                         *)
(* Arithmetic.  A numpy float is modelled by an exact number               *)
(*        (n + m * sqrt(r)) / d                                            *)
(* with integers n, m, a square-free r >= 1 and d >= 1, or by one of the   *)
(* IEEE special values nan, inf, ninf.  Square roots are only ever taken   *)
(* of rationals (the code takes them of dot products and of the trace      *)
(* expression), so one surd per number is enough.  Rounding error is not   *)
(* modelled: every operation returns the exact result.  Zero is unsigned:  *)
(* x / 0 is inf for x > 0 and ninf for x < 0.                              *)
(*                                                                         *)
(* An operator that reads an argument more than once binds it first, as    *)
(*        The({ body : a \in {x} })                                        *)
(* so that the argument is evaluated once, as Python evaluates it.         *)
(***************************************************************************)
EXTENDS Integers, Sequences, FiniteSets, TLC

The(S) == CHOOSE z \in S : TRUE

(***************************************************************************)
(* Integer helpers                                                         *)
(***************************************************************************)
IAbs(i) == IF i < 0 THEN -i ELSE i

ISgn(i) == IF i < 0 THEN -1 ELSE IF i = 0 THEN 0 ELSE 1

RECURSIVE GCD(_, _)
GCD(a, b) == IF b = 0 THEN a ELSE GCD(b, a % b)

LCM(a, b) == (a \div GCD(a, b)) * b

\* the largest k in lo..hi with k * k <= n (lo * lo <= n is assumed)
RECURSIVE IsqrtIn(_, _, _)
IsqrtIn(n, lo, hi) ==
    IF lo >= hi THEN lo
    ELSE LET mid == (lo + hi + 1) \div 2
         IN  IF mid <= n \div mid THEN IsqrtIn(n, mid, hi)
             ELSE IsqrtIn(n, lo, mid - 1)

Isqrt(n) == IsqrtIn(n, 0, IF n < 46340 THEN n ELSE 46340)

\* the largest k <= from with k * k dividing n
RECURSIVE SquarePartFrom(_, _)
SquarePartFrom(n, from) ==
    IF from <= 1 THEN 1
    ELSE IF n % (from * from) = 0 THEN from
    ELSE SquarePartFrom(n, from - 1)

SquarePart(n) == IF n = 0 THEN 1 ELSE SquarePartFrom(n, Isqrt(n))

\* a / b < c / d for naturals a, c and positive b, d, without forming a * d
RECURSIVE FracLt(_, _, _, _)
FracLt(a, b, c, d) ==
    LET qa == a \div b
        qc == c \div d
        ra == a % b
        rc == c % d
    IN  IF qa # qc THEN qa < qc
        ELSE IF rc = 0 THEN FALSE
        ELSE IF ra = 0 THEN TRUE
        ELSE FracLt(d, rc, b, ra)

(***************************************************************************)
(* Numbers                                                                 *)
(***************************************************************************)
Fin(n, m, r, d) == [k |-> "fin", n |-> n, m |-> m, r |-> r, d |-> d]

NaN == [k |-> "nan", n |-> 0, m |-> 0, r |-> 1, d |-> 1]

PosInf == [k |-> "inf", n |-> 0, m |-> 0, r |-> 1, d |-> 1]

NegInf == [k |-> "ninf", n |-> 0, m |-> 0, r |-> 1, d |-> 1]

\* the canonical form of (n + m * sqrt(r)) / d, for square-free r and d # 0
Norm(n, m, r, d) ==
    The({ LET n1 == IF r = 1 THEN n0 + m0 ELSE n0
              m1 == IF r <= 1 THEN 0 ELSE m0
              r1 == IF m1 = 0 THEN 1 ELSE r
              g  == GCD(GCD(IAbs(n1), IAbs(m1)), IAbs(d0))
              s  == IF d0 < 0 THEN -1 ELSE 1
          IN  Fin(s * (n1 \div g), s * (m1 \div g), r1, IAbs(d0) \div g)
          : n0 \in {n}, m0 \in {m}, d0 \in {d} })

Rat(n, d) == Norm(n, 0, 1, d)

Num(i) == Fin(i, 0, 1, 1)

Zero == Num(0)

One == Num(1)

IsFin(x) == x.k = "fin"

IsNaN(x) == x.k = "nan"

IsZero(x) == The({ IsFin(a) /\ a.n = 0 /\ a.m = 0 : a \in {x} })

\* -1, 0 or 1: the sign of a number that is not nan
Sign(x) ==
    The({ IF a.k = "inf" THEN 1
          ELSE IF a.k = "ninf" THEN -1
          ELSE LET p == ISgn(a.n)
                   q == ISgn(a.m)
               IN  IF q = 0 THEN p
                   ELSE IF p = 0 THEN q
                   ELSE IF p = q THEN p
                   ELSE p * ISgn(a.n * a.n - a.m * a.m * a.r)
          : a \in {x} })

InfOfSign(s) == IF s < 0 THEN NegInf ELSE PosInf

\* the surd two finite numbers share; the code never mixes two surds in a sum
SurdOf(x, y) ==
    IF x.m = 0 THEN y.r
    ELSE IF y.m = 0 \/ y.r = x.r THEN x.r
    ELSE CHOOSE r \in {} : TRUE

Neg(x) ==
    The({ IF a.k = "nan" THEN NaN
          ELSE IF a.k = "inf" THEN NegInf
          ELSE IF a.k = "ninf" THEN PosInf
          ELSE Fin(-a.n, -a.m, a.r, a.d)
          : a \in {x} })

Add(x, y) ==
    The({ IF IsNaN(a) \/ IsNaN(b) THEN NaN
          ELSE IF ~IsFin(a) /\ ~IsFin(b) THEN (IF a.k = b.k THEN a ELSE NaN)
          ELSE IF ~IsFin(a) THEN a
          ELSE IF ~IsFin(b) THEN b
          ELSE LET l == LCM(a.d, b.d)
                   p == l \div a.d
                   q == l \div b.d
               IN  Norm(a.n * p + b.n * q, a.m * p + b.m * q, SurdOf(a, b), l)
          : a \in {x}, b \in {y} })

Sub(x, y) == Add(x, Neg(y))

\* the product of two finite numbers; cancels across the two fractions first,
\* to keep the integers small
MulFin(a, b) ==
    IF a.m # 0 /\ b.m # 0 /\ a.r # b.r
    THEN \* two different surds: only products of pure surds occur
         IF a.n = 0 /\ b.n = 0
         THEN LET g  == GCD(a.r, b.r)
                  g1 == GCD(IAbs(a.m), b.d)
                  g2 == GCD(IAbs(b.m), a.d)
              IN  Norm(0, (a.m \div g1) * (b.m \div g2) * g,
                       (a.r \div g) * (b.r \div g),
                       (a.d \div g2) * (b.d \div g1))
         ELSE CHOOSE z \in {} : TRUE
    ELSE LET r  == SurdOf(a, b)
             g1 == GCD(GCD(IAbs(a.n), IAbs(a.m)), b.d)
             g2 == GCD(GCD(IAbs(b.n), IAbs(b.m)), a.d)
             an == a.n \div g1
             am == a.m \div g1
             bn == b.n \div g2
             bm == b.m \div g2
         IN  Norm(an * bn + am * bm * r, an * bm + am * bn, r,
                  (a.d \div g2) * (b.d \div g1))

Mul(x, y) ==
    The({ IF IsNaN(a) \/ IsNaN(b) THEN NaN
          ELSE IF ~IsFin(a) \/ ~IsFin(b)
               THEN (IF IsZero(a) \/ IsZero(b) THEN NaN
                     ELSE InfOfSign(Sign(a) * Sign(b)))
          ELSE MulFin(a, b)
          : a \in {x}, b \in {y} })

\* 1 / y for a finite y # 0
Recip(y) ==
    Norm(y.d * y.n, -(y.d * y.m), y.r, y.n * y.n - y.m * y.m * y.r)

Div(x, y) ==
    The({ IF IsNaN(a) \/ IsNaN(b) THEN NaN
          ELSE IF ~IsFin(a)
               THEN (IF ~IsFin(b) THEN NaN
                     ELSE InfOfSign(Sign(a) * (IF Sign(b) < 0 THEN -1 ELSE 1)))
          ELSE IF ~IsFin(b) THEN Zero
          ELSE IF IsZero(b)
               THEN (IF IsZero(a) THEN NaN ELSE InfOfSign(Sign(a)))
          ELSE Mul(a, Recip(b))
          : a \in {x}, b \in {y} })

AbsNum(x) ==
    The({ IF IsNaN(a) THEN NaN
          ELSE IF ~IsFin(a) THEN PosInf
          ELSE IF Sign(a) < 0 THEN Neg(a) ELSE a
          : a \in {x} })

\* np.sqrt of a rational: nan below zero, else (kp / (kq * rq)) * sqrt(rp * rq)
\* where n = kp^2 * rp and d = kq^2 * rq
Sqrt(x) ==
    The({ IF IsNaN(a) \/ a.k = "ninf" THEN NaN
          ELSE IF a.k = "inf" THEN PosInf
          ELSE IF a.m # 0 THEN CHOOSE z \in {} : TRUE
          ELSE IF a.n < 0 THEN NaN
          ELSE The({ Norm(0, kp, (a.n \div (kp * kp)) * (a.d \div (kq * kq)),
                          kq * (a.d \div (kq * kq)))
                     : kp \in {SquarePart(a.n)}, kq \in {SquarePart(a.d)} })
          : a \in {x} })

\* x < y as numpy compares floats: FALSE whenever a nan is involved
Lt(x, y) ==
    The({ IF IsNaN(a) \/ IsNaN(b) THEN FALSE
          ELSE IF a.k = "inf" \/ b.k = "ninf" THEN FALSE
          ELSE IF a.k = "ninf" \/ b.k = "inf" THEN TRUE
          ELSE Sign(Sub(b, a)) > 0
          : a \in {x}, b \in {y} })

\* np.absolute(e) < t for one element.  A finite e # 0 is at least
\* 1 / (d * (|n| + |m| * (isqrt(r) + 1))) in absolute value, which settles
\* the comparison with a tiny t without forming numbers beyond TLC's range.
AbsLt(e, t) ==
    The({ IF IsNaN(a) \/ IsNaN(b) THEN FALSE
          ELSE IF ~IsFin(a) THEN FALSE
          ELSE IF ~IsFin(b) THEN b.k = "inf"
          ELSE IF Sign(b) <= 0 THEN FALSE
          ELSE IF IsZero(a) THEN TRUE
          ELSE IF a.m = 0 /\ b.m = 0 THEN FracLt(IAbs(a.n), a.d, b.n, b.d)
          ELSE IF b.m = 0
                  /\ ~FracLt(1, a.d * (IAbs(a.n) + IAbs(a.m) * (Isqrt(a.r) + 1)),
                             b.n, b.d)
               THEN FALSE
          ELSE Lt(AbsNum(a), b)
          : a \in {e}, b \in {t} })

(***************************************************************************)
(* Vectors and 3x3 matrices of numbers                                     *)
(***************************************************************************)
Idx == {1, 2, 3}

NoValue == <<>>

\* np.asarray of a vector of integers
Vec(v) == <<Num(v[1]), Num(v[2]), Num(v[3])>>

\* the matrix with the integer entries A divided by den
MatRow(a, den) == <<Rat(a[1], den), Rat(a[2], den), Rat(a[3], den)>>

Mat(A, den) == <<MatRow(A[1], den), MatRow(A[2], den), MatRow(A[3], den)>>

NaNMat == <<<<NaN, NaN, NaN>>, <<NaN, NaN, NaN>>, <<NaN, NaN, NaN>>>>

VecNeg(v) == The({ <<Neg(u[1]), Neg(u[2]), Neg(u[3])>> : u \in {v} })

VecDiv(v, x) ==
    The({ <<Div(u[1], a), Div(u[2], a), Div(u[3], a)>> : u \in {v}, a \in {x} })

Dot(u, v) ==
    The({ Add(Add(Mul(p[1], q[1]), Mul(p[2], q[2])), Mul(p[3], q[3]))
          : p \in {u}, q \in {v} })

Col(M, j) == The({ <<A[1][j], A[2][j], A[3][j]>> : A \in {M} })

Transpose(M) == The({ <<Col(A, 1), Col(A, 2), Col(A, 3)>> : A \in {M} })

VecMat(v, M) ==
    The({ <<Dot(u, Col(A, 1)), Dot(u, Col(A, 2)), Dot(u, Col(A, 3))>>
          : u \in {v}, A \in {M} })

MatMul(A, B) ==
    The({ <<VecMat(P[1], Q), VecMat(P[2], Q), VecMat(P[3], Q)>>
          : P \in {A}, Q \in {B} })

MatVec(M, v) ==
    The({ <<Dot(A[1], u), Dot(A[2], u), Dot(A[3], u)>> : A \in {M}, u \in {v} })

VecScale(v, x) ==
    The({ <<Mul(u[1], a), Mul(u[2], a), Mul(u[3], a)>> : u \in {v}, a \in {x} })

MatScale(M, x) ==
    The({ <<VecScale(A[1], a), VecScale(A[2], a), VecScale(A[3], a)>>
          : A \in {M}, a \in {x} })

Trace(M) == The({ Add(Add(A[1][1], A[2][2]), A[3][3]) : A \in {M} })

Identity == Mat(<<<<1, 0, 0>>, <<0, 1, 0>>, <<0, 0, 1>>>>, 1)

\* the 2x2 minor of M on rows i1, i2 and columns j1, j2
Minor(M, i1, i2, j1, j2) ==
    Sub(Mul(M[i1][j1], M[i2][j2]), Mul(M[i1][j2], M[i2][j1]))

Det(M) ==
    The({ Add(Sub(Mul(A[1][1], Minor(A, 2, 3, 2, 3)),
                  Mul(A[1][2], Minor(A, 2, 3, 1, 3))),
              Mul(A[1][3], Minor(A, 2, 3, 1, 2)))
          : A \in {M} })

Succ3(i) == (i % 3) + 1

\* the (i, j) entry of the adjugate: the cofactor of (j, i)
Adj(M, i, j) ==
    Minor(M, Succ3(j), Succ3(Succ3(j)), Succ3(i), Succ3(Succ3(i)))

HasNaN(M) == \E i \in Idx, j \in Idx : IsNaN(M[i][j])

\* the inverse of a matrix M with determinant d # 0
AdjOverDet(M, d) ==
    << <<Div(Adj(M, 1, 1), d), Div(Adj(M, 1, 2), d), Div(Adj(M, 1, 3), d)>>,
       <<Div(Adj(M, 2, 1), d), Div(Adj(M, 2, 2), d), Div(Adj(M, 2, 3), d)>>,
       <<Div(Adj(M, 3, 1), d), Div(Adj(M, 3, 2), d), Div(Adj(M, 3, 3), d)>> >>

\* numpy.linalg.inv without the test for a singular matrix
inv_noraise(M) ==
    The({ IF HasNaN(A) THEN [err |-> FALSE, val |-> NaNMat]
          ELSE The({ [err |-> FALSE, val |-> AdjOverDet(A, d)]
                     : d \in {Det(A)} })
          : A \in {M} })

\* numpy.linalg.inv: raises LinAlgError("Singular matrix") for a singular
\* matrix; a nan in the matrix is no error and propagates to every entry
inv(M) ==
    The({ IF HasNaN(A) THEN [err |-> FALSE, val |-> NaNMat]
          ELSE The({ IF IsZero(d) THEN [err |-> TRUE, val |-> NoValue]
                     ELSE [err |-> FALSE, val |-> AdjOverDet(A, d)]
                     : d \in {Det(A)} })
          : A \in {M} })

(***************************************************************************)
(* applythresh                                                             *)
(***************************************************************************)
\* the default of applythresh's t: 10**-9
DefaultThresh == Rat(1, 1000000000)

\* P as the caller passes it: a numpy.ndarray (ndim 1 or 2), a list, a float
NdArray1(v) == [kind |-> "ndarray", ndim |-> 1, val |-> v]

NdArray2(M) == [kind |-> "ndarray", ndim |-> 2, val |-> M]

List(v) == [kind |-> "list", ndim |-> 1, val |-> v]

\* (ndim 0: val holds the one number)
Float(x) == [kind |-> "float", ndim |-> 0, val |-> <<x>>]

\* one element after ind = np.absolute(P) < t; P[ind] = 0, but comparing the
\* element itself with t
ThreshElemNoAbs(e, t) == IF Lt(e, t) THEN Zero ELSE e

\* one element after ind = np.absolute(P) < t; P[ind] = 0
ThreshElem(e, t) == IF AbsLt(e, t) THEN Zero ELSE e

ThreshRow(v, t) == [j \in DOMAIN v |-> ThreshElem(v[j], t)]

ThreshVal(P, t) ==
    IF P.ndim = 2 THEN [i \in DOMAIN P.val |-> ThreshRow(P.val[i], t)]
    ELSE ThreshRow(P.val, t)

\* status "ok": P (the caller's array, changed in place) is returned;
\* status "TypeError": P[ind] = 0 is no operation of a float or of a list
\* indexed by a boolean array, and P is left as it was
applythresh(P, t) ==
    The({ IF Q.kind = "ndarray"
          THEN [status |-> "ok", val |-> [Q EXCEPT !.val = ThreshVal(Q, t)]]
          ELSE [status |-> "TypeError", val |-> NoValue]
          : Q \in {P} })

(***************************************************************************)
(* rotationmatrix                                                          *)
(***************************************************************************)
\* An angle theta is given by the point <<x, y, h>> with x^2 + y^2 = h^2 it
\* marks on the circle of radius h: np.cos(theta) = x / h, np.sin(theta) = y / h.
Cos(theta) == Rat(theta[1], theta[3])

Sin(theta) == Rat(theta[2], theta[3])

\* the matrix R of lines 116-130 with the sign of one term changed
RodriguesWrongSign(u, c, s) ==
    The({ << << Add(c, Mul(Mul(u[1], u[1]), v)),
                Sub(Mul(Mul(u[1], u[2]), v), Mul(u[3], s)),
                Add(Mul(Mul(u[1], u[3]), v), Mul(u[2], s)) >>,
             << Sub(Mul(Mul(u[2], u[1]), v), Mul(u[3], s)),
                Add(c, Mul(Mul(u[2], u[2]), v)),
                Sub(Mul(Mul(u[2], u[3]), v), Mul(u[1], s)) >>,
             << Sub(Mul(Mul(u[3], u[1]), v), Mul(u[2], s)),
                Add(Mul(Mul(u[3], u[2]), v), Mul(u[1], s)),
                Add(c, Mul(Mul(u[3], u[3]), v)) >> >>
          : v \in {Sub(One, c)} })

\* the matrix R of lines 116-130, from the unit vector u and c = cos, s = sin
Rodrigues(u, c, s) ==
    The({ << << Add(c, Mul(Mul(u[1], u[1]), v)),
                Sub(Mul(Mul(u[1], u[2]), v), Mul(u[3], s)),
                Add(Mul(Mul(u[1], u[3]), v), Mul(u[2], s)) >>,
             << Add(Mul(Mul(u[2], u[1]), v), Mul(u[3], s)),
                Add(c, Mul(Mul(u[2], u[2]), v)),
                Sub(Mul(Mul(u[2], u[3]), v), Mul(u[1], s)) >>,
             << Sub(Mul(Mul(u[3], u[1]), v), Mul(u[2], s)),
                Add(Mul(Mul(u[3], u[2]), v), Mul(u[1], s)),
                Add(c, Mul(Mul(u[3], u[3]), v)) >> >>
          : v \in {Sub(One, c)} })

\* lines 110-111, 180-181 and 183-184: v / np.sqrt(v @ v.T)
Unit(v) == The({ VecDiv(w, Sqrt(Dot(w, w))) : w \in {v} })

\* r is a vector of integers; the result is applythresh's
rotationmatrix(r, theta) ==
    The({ The({ applythresh(NdArray2(R), DefaultThresh)
                : R \in {Rodrigues(u, c, s)} })
          : u \in {Unit(Vec(r))}, c \in {Cos(theta)}, s \in {Sin(theta)} })

(***************************************************************************)
(* angleTBpair                                                             *)
(***************************************************************************)
\* 10000 * tan(k degrees) for k = 0 .. 45, rounded
TanTable ==
    << 0, 175, 349, 524, 699, 875, 1051, 1228, 1405, 1584, 1763, 1944, 2126,
       2309, 2493, 2679, 2867, 3057, 3249, 3443, 3640, 3839, 4040, 4245, 4452,
       4663, 4877, 5095, 5317, 5543, 5774, 6009, 6249, 6494, 6745, 7002, 7265,
       7536, 7813, 8098, 8391, 8693, 9004, 9325, 9657, 10000 >>

\* the largest k in 0 .. 45 with tan(k degrees) <= x, for a rational 0 <= x <= 1
RECURSIVE TanIndex(_, _)
TanIndex(x, k) ==
    IF k = 0 \/ ~Lt(x, Rat(TanTable[k + 1], 10000)) THEN k
    ELSE TanIndex(x, k - 1)

\* arctan of a rational 0 <= x <= 1 in degrees: linear between the table's
\* entries, so exact at 0 and at 1 and strictly increasing
ArcTanDeg01(x) ==
    The({ IF k = 45 THEN Num(45)
          ELSE Add(Num(k),
                   Div(Sub(y, Rat(TanTable[k + 1], 10000)),
                       Rat(TanTable[k + 2] - TanTable[k + 1], 10000)))
          : y \in {x}, k \in {TanIndex(x, 45)} })

\* np.arctan, the angle in units of pi radians (1/2 stands for pi/2)
ArcTan(x) ==
    The({ IF IsNaN(y) THEN NaN
          ELSE IF ~IsFin(y) THEN Rat(Sign(y), 2)
          ELSE The({ Mul(Num(Sign(y)),
                         Div(IF Lt(One, a)
                             THEN Sub(Num(90), ArcTanDeg01(Div(One, a)))
                             ELSE ArcTanDeg01(a),
                             Num(180)))
                     : a \in {AbsNum(y)} })
          : y \in {x} })

\* np.degrees
Degrees(phi) == Mul(phi, Num(180))

\* the slope -k_r[0] / k_r[1] of the trace of the plane with normal k_r
Slope(k_r) == Div(Neg(k_r[1]), k_r[2])

\* line 39 without np.abs, from the slopes m1 and m2
AngleOfSlopes_noabs(m1, m2) ==
    ArcTan(Div(Sub(m1, m2), Add(One, Mul(m1, m2))))

\* line 39: phi = np.arctan(np.abs((m1 - m2) / (1 + m1 * m2)))
AngleOfSlopes(m1, m2) ==
    ArcTan(AbsNum(Div(Sub(m1, m2), Add(One, Mul(m1, m2)))))

angleTBpair(rPm, k1_m, k2_m) ==
    The({ IF iP.err THEN [status |-> "LinAlgError", val |-> NoValue]
          ELSE The({ [status |-> "ok",
                      val |-> Degrees(AngleOfSlopes(m1, m2))]
                     : m1 \in {Slope(VecMat(Vec(k1_m), iP.val))},
                       m2 \in {Slope(VecMat(Vec(k2_m), iP.val))} })
          : iP \in {inv(rPm)} })

(***************************************************************************)
(* OR_NCtwins                                                              *)
(***************************************************************************)
\* the transpose of the correspondence matrix
CTransposed == Mat(<<<<0, 1, 0>>, <<-1, 0, 0>>, <<0, 0, 1>>>>, 1)

\* the correspondence matrix C of line 173
C == Mat(<<<<0, -1, 0>>, <<1, 0, 0>>, <<0, 0, 1>>>>, 1)

\* lines 163-166 negating eta1 only
SignConventionEtaOnly(K1, eta1, normal_pos) ==
    IF normal_pos = FALSE THEN <<K1, VecNeg(eta1)>> ELSE <<K1, eta1>>

\* lines 163-166 negating K1 only
SignConventionK1Only(K1, eta1, normal_pos) ==
    IF normal_pos = FALSE THEN <<VecNeg(K1), eta1>> ELSE <<K1, eta1>>

\* lines 163-166: <<K1, eta1>> after the sign convention
SignConvention(K1, eta1, normal_pos) ==
    IF normal_pos = FALSE THEN <<VecNeg(K1), VecNeg(eta1)>> ELSE <<K1, eta1>>

\* lines 169-170: X = rPm * a, G = X.T @ X
MetricTensor(rPm, a) ==
    The({ MatMul(Transpose(X), X) : X \in {MatScale(rPm, a)} })

\* line 176 with G in the place of inv(G)
RadicandNoInverse(G, iG) ==
    Sub(Trace(MatMul(MatMul(MatMul(Transpose(C), G), C), G)), Num(3))

\* line 176, the operand of np.sqrt: trace(C.T @ G @ C @ inv(G)) - 3
Radicand(G, iG) ==
    Sub(Trace(MatMul(MatMul(MatMul(Transpose(C), G), C), iG)), Num(3))

\* lines 187-200: rS[i, j] = (1 if i = j else 0) + s * rl[i] * rm[j]
ShearMatrix(s, rl, rm) ==
    LET e(i, j) == Add(IF i = j THEN One ELSE Zero, Mul(Mul(s, rl[i]), rm[j]))
    IN  << <<e(1, 1), e(1, 2), e(1, 3)>>,
           <<e(2, 1), e(2, 2), e(2, 3)>>,
           <<e(3, 1), e(3, 2), e(3, 3)>> >>

\* How a call ends.  loc holds the locals bound so far (the claims speak of
\* G, the radicand rad, s, rm, rl and rS), at the inverse that raised.
Raised(where, loc) ==
    [status |-> "LinAlgError", at |-> where, loc |-> loc, val |-> NoValue]

Returned(loc, rL) == [status |-> "ok", at |-> "", loc |-> loc, val |-> rL]

\* line 203: rL = rPm @ C @ inv(rPm) @ inv(rS)
Orientation(rPm, iP, loc) ==
    The({ IF iS.err THEN Raised("inv(rS)", loc)
          ELSE Returned(loc, MatMul(MatMul(MatMul(rPm, C), iP), iS.val))
          : iS \in {inv(loc.rS)} })

\* lines 180-200: rm, rl and the shear matrix rS
Shear(sc, rPm, loc) ==
    The({ IF iP.err THEN Raised("inv(rPm)", loc)
          ELSE The({ The({ Orientation(rPm, iP.val,
                                       [G |-> loc.G, rad |-> loc.rad,
                                        s |-> loc.s, rm |-> rm, rl |-> rl,
                                        rS |-> rS])
                           : rS \in {ShearMatrix(loc.s, rl, rm)} })
                     : rm \in {Unit(VecMat(sc[1], iP.val))},
                       rl \in {Unit(MatVec(rPm, sc[2]))} })
          : iP \in {inv(rPm)} })

\* line 176: the radicand and s = np.sqrt of it
ShearMagnitude(sc, rPm, G, iG) ==
    The({ The({ Shear(sc, rPm, [G |-> G, rad |-> rad, s |-> s])
                : s \in {Sqrt(rad)} })
          : rad \in {Radicand(G, iG)} })

\* K1 and eta1 are vectors of integers, rPm a matrix of numbers, a a number
OR_NCtwins(K1, eta1, rPm, a, normal_pos) ==
    The({ The({ IF iG.err THEN Raised("inv(G)", [G |-> G])
                ELSE ShearMagnitude(sc, rPm, G, iG.val)
                : iG \in {inv(G)} })
          : sc \in {SignConvention(Vec(K1), Vec(eta1), normal_pos)},
            G \in {MetricTensor(rPm, a)} })

(***************************************************************************)
(* Bounds and the inputs the caller draws                                  *)
(***************************************************************************)
MaxLen == 2

MaxAxis == 1

MaxIndex == 1

MaxA == 2

\* elements of the arrays handed to applythresh: numbers around the thresholds
Elems ==
    { Zero, Rat(1, 2000000000), Rat(-1, 2000000000), Rat(1, 1000000000),
      Rat(-1, 1000000000), Rat(1, 2), Num(-1), PosInf, NaN }

Thresholds == { DefaultThresh, Rat(1, 2), Num(1), Zero, Num(-1) }

ElemSeqs == UNION { [1..n -> Elems] : n \in 0..MaxLen }

\* the operands of d dimensions: arrays of two rows for d = 2; arrays, lists
\* and floats for d = 1
Operands(d) ==
    IF d = 2 THEN { NdArray2(<<v, w>>) : v, w \in [1..1 -> Elems] }
    ELSE { NdArray1(v) : v \in ElemSeqs }
         \cup { List(v) : v \in [1..1 -> Elems] }
         \cup { Float(x) : x \in Elems }

\* rotation axes, the zero vector among them
Axes == { <<x, y, z>> : x \in -MaxAxis..MaxAxis, y \in -MaxAxis..MaxAxis,
                        z \in -MaxAxis..MaxAxis }

\* rotation angles with rational cosine and sine: 0, pi/2, pi, -pi/2 and the
\* angles of the 3-4-5 and 5-12-13 triangles
Angles ==
    { <<1, 0, 1>>, <<0, 1, 1>>, <<-1, 0, 1>>, <<0, -1, 1>>, <<3, 4, 5>>,
      <<4, -3, 5>>, <<-3, 4, 5>>, <<-4, -3, 5>>, <<5, 12, 13>>, <<-12, 5, 13>> }

\* transformation matrices rPm: cubic, orthorhombic, two monoclinic-like, a
\* dense one, and three singular ones (zero, rank 2, rank 1)
Lattices ==
    { Identity,
      Mat(<<<<1, 0, 0>>, <<0, 2, 0>>, <<0, 0, 3>>>>, 1),
      Mat(<<<<1, -1, 0>>, <<0, 2, 0>>, <<0, 0, 1>>>>, 1),
      Mat(<<<<2, 1, 0>>, <<0, 3, 0>>, <<0, 0, 2>>>>, 2),
      Mat(<<<<2, 1, 0>>, <<0, 1, 1>>, <<1, 0, 1>>>>, 1),
      Mat(<<<<0, 0, 0>>, <<0, 0, 0>>, <<0, 0, 0>>>>, 1),
      Mat(<<<<1, 2, 3>>, <<4, 5, 6>>, <<7, 8, 9>>>>, 1),
      Mat(<<<<1, 1, 0>>, <<1, 1, 0>>, <<0, 0, 0>>>>, 2) }

\* plane normals (h k l) for angleTBpair: the planes (h k 0) with k >= 0, the
\* basal plane (0 0 1) and the plane (1 1 1)
Planes ==
    ({ <<h, k, 0>> : h \in -MaxIndex..MaxIndex, k \in 0..MaxIndex }
        \ { <<0, 0, 0>> })
    \cup { <<0, 0, 1>>, <<1, 1, 1>> }

\* twin boundary planes K1 and shear directions eta1 for OR_NCtwins
TwinPlanes ==
    { <<0, 1, 0>>, <<1, 0, 0>>, <<1, 1, 0>>, <<-1, 1, 0>>, <<1, 2, 1>>,
      <<0, 0, 0>> }

ShearDirections ==
    { <<1, 0, 0>>, <<0, -1, 0>>, <<1, -1, 0>>, <<1, 1, 0>>, <<2, 0, -1>>,
      <<0, 0, 0>> }

\* lattice parameters a: 0, 1/2, 1, 3/2, ...
LatticeParameters == { Rat(p, 2) : p \in 0..MaxA }

(***************************************************************************)
(* The caller                                                              *)
(***************************************************************************)
VARIABLES pc, fn, args, ret

vars == <<pc, fn, args, ret>>

Init ==
    /\ pc = "idle"
    /\ fn = "none"
    /\ args = NoValue
    /\ ret = NoValue

CallApplythresh ==
    /\ pc = "idle"
    /\ \E d \in {1, 2} : \E P \in Operands(d), t \in Thresholds :
          /\ args' = [P |-> P, t |-> t]
          /\ ret' = applythresh(P, t)
    /\ fn' = "applythresh"
    /\ pc' = "returned"

CallRotationmatrix ==
    /\ pc = "idle"
    /\ \E r \in Axes, theta \in Angles :
          /\ args' = [r |-> r, theta |-> theta]
          /\ ret' = rotationmatrix(r, theta)
    /\ fn' = "rotationmatrix"
    /\ pc' = "returned"

CallAngleTBpair ==
    /\ pc = "idle"
    /\ \E rPm \in Lattices, k1_m \in Planes, k2_m \in Planes :
          /\ args' = [rPm |-> rPm, k1_m |-> k1_m, k2_m |-> k2_m]
          /\ ret' = angleTBpair(rPm, k1_m, k2_m)
    /\ fn' = "angleTBpair"
    /\ pc' = "returned"

CallOR_NCtwins ==
    /\ pc = "idle"
    /\ \E K1 \in TwinPlanes, eta1 \in ShearDirections, rPm \in Lattices,
          a \in LatticeParameters, normal_pos \in BOOLEAN :
          /\ args' = [K1 |-> K1, eta1 |-> eta1, rPm |-> rPm, a |-> a,
                      normal_pos |-> normal_pos]
          /\ ret' = OR_NCtwins(K1, eta1, rPm, a, normal_pos)
    /\ fn' = "OR_NCtwins"
    /\ pc' = "returned"

\* the caller drops the result and is ready for the next call
Return ==
    /\ pc = "returned"
    /\ pc' = "idle"
    /\ fn' = "none"
    /\ args' = NoValue
    /\ ret' = NoValue

Next ==
    \/ CallApplythresh
    \/ CallRotationmatrix
    \/ CallAngleTBpair
    \/ CallOR_NCtwins
    \/ Return

Spec == Init /\ [][Next]_vars

(***************************************************************************)
(* Properties                                                              *)
(***************************************************************************)
Called(f) == pc = "returned" /\ fn = f

IntNeg(v) == <<-v[1], -v[2], -v[3]>>

ZeroVector == <<0, 0, 0>>

AllFinite(M) == \A i \in Idx, j \in Idx : IsFin(M[i][j])

Invertible(M) == ~IsZero(Det(M))

\* x > 0, for a number x
Positive(x) == IsFin(x) /\ Sign(x) > 0

\* C1: a successful call OR_NCtwins(K1, eta1, rPm, a, True) returns the very
\* matrix that OR_NCtwins(-K1, -eta1, rPm, a, False) returns
SignConventionCancels ==
    (Called("OR_NCtwins") /\ args.normal_pos /\ ret.status = "ok")
    => LET other == OR_NCtwins(IntNeg(args.K1), IntNeg(args.eta1), args.rPm,
                               args.a, FALSE)
       IN  other.status = "ok" /\ other.val = ret.val

\* C1: a call with normal_pos = True has returned a finite matrix for a twin
\* with a shear s > 0
SignConventionWitness ==
    /\ Called("OR_NCtwins")
    /\ args.normal_pos
    /\ ret.status = "ok"
    /\ Positive(ret.loc.s)
    /\ AllFinite(ret.val)

\* R is a proper rotation: R^T R is the identity within the threshold and
\* det(R) = 1
IsProperRotation(R) ==
    /\ \A i \in Idx, j \in Idx :
          AbsLt(Sub(MatMul(Transpose(R), R)[i][j], Identity[i][j]),
                DefaultThresh)
    /\ Det(R) = One

\* C2 (amended): for every axis r other than the zero vector and every angle,
\* rotationmatrix returns a proper rotation
RotationIsProperForNonZeroAxis ==
    (Called("rotationmatrix") /\ args.r # ZeroVector)
    => (ret.status = "ok" /\ IsProperRotation(ret.val.val))

\* C2 (as stated): for every axis r and every angle, rotationmatrix returns a
\* proper rotation
RotationIsProper ==
    Called("rotationmatrix")
    => (ret.status = "ok" /\ IsProperRotation(ret.val.val))

\* C2: a rotation about the axis (1, 1, 0) by the angle of the 3-4-5
\* triangle has been returned
RotationWitness ==
    /\ Called("rotationmatrix")
    /\ args.r = <<1, 1, 0>>
    /\ args.theta = <<3, 4, 5>>
    /\ ret.status = "ok"
    /\ ret.val.val # Identity

\* the pairs <<element of P, element of Q at the same place>>
ElementPairs(P, Q) ==
    IF P.ndim = 2
    THEN UNION { { <<P.val[i][j], Q.val[i][j]>> : j \in DOMAIN P.val[i] }
                 : i \in DOMAIN P.val }
    ELSE { <<P.val[i], Q.val[i]>> : i \in DOMAIN P.val }

SameShape(P, Q) ==
    /\ P.ndim = Q.ndim
    /\ DOMAIN P.val = DOMAIN Q.val
    /\ P.ndim = 2 => \A i \in DOMAIN P.val : DOMAIN P.val[i] = DOMAIN Q.val[i]

\* no element of the array is nan
Numeric(P) == \A pr \in ElementPairs(P, P) : ~IsNaN(pr[1])

IdenticalPlanesGiveZero ==
    (Called("angleTBpair") /\ Invertible(args.rPm) /\ args.k1_m = args.k2_m)
    => (ret.status = "ok" /\ ret.val = Zero)

\* C5: angleTBpair(rPm, k2, k1) ends as angleTBpair(rPm, k1, k2) does, with
\* the same angle
AngleIsSymmetric ==
    (Called("angleTBpair") /\ Invertible(args.rPm))
    => angleTBpair(args.rPm, args.k2_m, args.k1_m) = ret

\* C5: angleTBpair has returned an angle strictly between 0 and 90 degrees
\* for two different planes
AngleWitness ==
    /\ Called("angleTBpair")
    /\ Invertible(args.rPm)
    /\ args.k1_m # args.k2_m
    /\ ret.status = "ok"
    /\ Positive(ret.val)
    /\ Lt(ret.val, Num(90))

ThreshAcceptsFloatAndList ==
    (Called("applythresh") /\ args.P.kind \in {"float", "list"}
                           /\ Numeric(args.P))
    => /\ ret.status = "ok"
       /\ SameShape(args.P, ret.val)
       /\ \A pr \in ElementPairs(args.P, ret.val) :
             pr[2] = IF Lt(AbsNum(pr[1]), args.t) THEN Zero ELSE pr[1]

GoldenCall ==
    /\ Called("OR_NCtwins")
    /\ args.rPm = Identity
    /\ args.a = One
    /\ args.K1 = <<0, 1, 0>>
    /\ args.eta1 = <<1, 0, 0>>

\* C8: with rPm = identity, a = 1, K1 = [0,1,0], eta1 = [1,0,0]: G is the
\* identity, the radicand and s are 0, rS is the identity and the matrix
\* returned is [[0,-1,0],[1,0,0],[0,0,1]]
GoldenValue ==
    GoldenCall
    => /\ ret.status = "ok"
       /\ ret.loc.G = Identity
       /\ ret.loc.rad = Zero
       /\ ret.loc.s = Zero
       /\ ret.loc.rS = Identity
       /\ ret.val = <<Vec(<<0, -1, 0>>), Vec(<<1, 0, 0>>), Vec(<<0, 0, 1>>)>>

\* C8: the golden call has returned
GoldenWitness == GoldenCall /\ ret.status = "ok" /\ AllFinite(ret.val)

\* how a call of OR_NCtwins ends, as its caller sees it
Outcome(res) == <<res.status, res.at, res.val>>

\* C9: OR_NCtwins ends the same way, returning the same matrix or raising at
\* the same place, when normal_pos is flipped
NormalPosHasNoEffect ==
    Called("OR_NCtwins")
    => Outcome(OR_NCtwins(args.K1, args.eta1, args.rPm, args.a,
                          ~args.normal_pos)) = Outcome(ret)

\* C9: a call with normal_pos = False has returned a finite matrix for a
\* twin with a shear s > 0
NormalPosWitness ==
    /\ Called("OR_NCtwins")
    /\ ~args.normal_pos
    /\ ret.status = "ok"
    /\ Positive(ret.loc.s)
    /\ AllFinite(ret.val)

\* C10: for an invertible rPm and a # 0 the radicand is bound, is a number
\* >= 0 and is the radicand of the same call with a = 1; s is a number >= 0
RadicandIsNonNegative ==
    (Called("OR_NCtwins") /\ Invertible(args.rPm) /\ ~IsZero(args.a))
    => /\ "rad" \in DOMAIN ret.loc
       /\ IsFin(ret.loc.rad) /\ Sign(ret.loc.rad) >= 0
       /\ IsFin(ret.loc.s) /\ Sign(ret.loc.s) >= 0
       /\ ret.loc.rad
            = OR_NCtwins(args.K1, args.eta1, args.rPm, One,
                         args.normal_pos).loc.rad

\* C10: a call with a = 1/2 has bound a radicand > 0
RadicandWitness ==
    /\ Called("OR_NCtwins")
    /\ args.a = Rat(1, 2)
    /\ "rad" \in DOMAIN ret.loc
    /\ Positive(ret.loc.rad)

====
